---- MODULE Spec2Model ----
(***************************************************************************)
(* Model of src/js/image-downloader.js: the class ImageDownloader and the  *)
(* entry point downloadAllImages (the declaration at the end of the file,  *)
(* which is the one in force).  A run is modelled: the constructor and     *)
(* init, the staggered timers of processImages, the per-image pipeline of  *)
(* processImage (load, draw, encode, platform save), the aggregate join    *)
(* and the status indicator with its removal timer.  Spec is one run on a  *)
(* fixed page URL, SpecNav lets the page URL change during the run,        *)
(* SpecNaming runs on every page path of a bounded shape, and SpecTwoRuns  *)
(* has a second, overlapping invocation of downloadAllImages.              *)
(*                                                                         *)
(* Strings are sequences of one-character strings, so that the naming      *)
(* functions are computed as the code computes them.                       *)
(***************************************************************************)
EXTENDS Integers, Sequences, FiniteSets

\* ---------------------------------------------------------------- bounds

\* Largest number of <img> elements on the page.
MaxImages == 2

\* Largest number of "/"-separated segments of a page path.
MaxSegments == 4

\* ------------------------------------------------------- program constants

\* showError(message, duration = 3000)
ErrorDuration == 3000
\* showSuccess(message, duration = 5000)
SuccessDuration == 5000
\* setTimeout(..., i * 200) in the class's processImages
StaggerMs == 200
\* setTimeout(..., index * 100) in the function version's processImages
FunctionStaggerMs == 100

\* --------------------------------------------------------------- strings

UpperChars == <<"A","B","C","D","E","F","G","H","I","J","K","L","M",
                "N","O","P","Q","R","S","T","U","V","W","X","Y","Z">>
LowerChars == <<"a","b","c","d","e","f","g","h","i","j","k","l","m",
                "n","o","p","q","r","s","t","u","v","w","x","y","z">>
DigitChars == <<"0","1","2","3","4","5","6","7","8","9">>

Range(s) == { s[k] : k \in DOMAIN s }

\* [a-zA-Z0-9]
AlnumChars == Range(UpperChars) \cup Range(LowerChars) \cup Range(DigitChars)
IsAlnum(c) == c \in AlnumChars

\* String.prototype.toLowerCase on the upper-case letters
LowerOf == [c \in Range(UpperChars) |->
               LowerChars[CHOOSE k \in DOMAIN UpperChars : UpperChars[k] = c]]

\* String.prototype.toLowerCase on one character
LowerChar(c) == IF c \in DOMAIN LowerOf THEN LowerOf[c] ELSE c

\* String.prototype.toLowerCase
ToLower(s) == [k \in DOMAIN s |-> LowerChar(s[k])]

\* Decimal rendering of a natural number, as a template literal renders it.
RECURSIVE Decimal(_)
Decimal(n) ==
    IF n < 10 THEN <<DigitChars[n + 1]>>
    ELSE Decimal(n \div 10) \o <<DigitChars[(n % 10) + 1]>>

\* pathname.replace(/^\/+|\/+$/g, ""): strip leading and trailing slashes
RECURSIVE StripLeadingSlashes(_)
StripLeadingSlashes(s) ==
    IF s # <<>> /\ Head(s) = "/" THEN StripLeadingSlashes(Tail(s)) ELSE s

RECURSIVE StripTrailingSlashes(_)
StripTrailingSlashes(s) ==
    IF s # <<>> /\ s[Len(s)] = "/"
    THEN StripTrailingSlashes(SubSeq(s, 1, Len(s) - 1))
    ELSE s

CleanPath(pathname) == StripTrailingSlashes(StripLeadingSlashes(pathname))

\* cleanPath.split("/"): always at least one segment, empty segments kept
RECURSIVE SplitSlash(_)
SplitSlash(s) ==
    IF \E k \in DOMAIN s : s[k] = "/"
    THEN LET k == CHOOSE j \in DOMAIN s :
                     s[j] = "/" /\ \A m \in 1..(j - 1) : s[m] # "/"
         IN  <<SubSeq(s, 1, k - 1)>> \o SplitSlash(SubSeq(s, k + 1, Len(s)))
    ELSE <<s>>

\* segments[1].replace(/-/g, "")
RECURSIVE RemoveHyphens(_)
RemoveHyphens(s) ==
    IF s = <<>> THEN <<>>
    ELSE IF Head(s) = "-" THEN RemoveHyphens(Tail(s))
    ELSE <<Head(s)>> \o RemoveHyphens(Tail(s))

\* String.prototype.startsWith("#")
StartsWithHash(s) == s # <<>> /\ Head(s) = "#"

\* A URL is a record: valid is whether new URL(url) parses it, pathname is
\* the parsed URL's pathname.
Url(p) == [valid |-> TRUE, pathname |-> p]
BadUrl == [valid |-> FALSE, pathname |-> <<>>]

Condo == <<"c","o","n","d","o">>
Images == <<"i","m","a","g","e","s">>
Jpg == <<"j","p","g">>

\* The branches of getFileNameFromUrl on the segments of the clean path.
PrefixFromSegments(segments) ==
    LET n == Len(segments)
    IN  IF n >= 3 /\ segments[1] = Condo
        THEN LET condoName == RemoveHyphens(segments[2])
                 roomNumber == IF StartsWithHash(segments[n])
                               THEN segments[n - 1]
                               ELSE segments[n]
             IN  Condo \o <<"_">> \o condoName \o <<"_">> \o roomNumber
        ELSE Images

\* getFileNameFromUrl: the filename prefix derived from the page URL; an
\* unparsable URL is caught and gives "images".  (The segments are bound by
\* a set so that they are computed once.)
getFileNameFromUrl(href) ==
    IF ~href.valid THEN Images
    ELSE CHOOSE prefix \in { PrefixFromSegments(segments) :
                                segments \in { SplitSlash(CleanPath(href.pathname)) } } :
             TRUE

\* Length of the longest run of [a-zA-Z0-9] starting at position k of s.
RECURSIVE AlnumRun(_, _)
AlnumRun(s, k) ==
    IF k <= Len(s) /\ IsAlnum(s[k]) THEN 1 + AlnumRun(s, k + 1) ELSE 0

\* Whether /\.([a-zA-Z0-9]+)(?:[?#]|$)/ matches with its dot at position k.
ExtMatchAt(s, k) ==
    /\ s[k] = "."
    /\ AlnumRun(s, k + 1) >= 1
    /\ LET e == k + 1 + AlnumRun(s, k + 1)
       IN  e > Len(s) \/ s[e] \in {"?", "#"}

\* getFileExtension: the lower-cased extension, or <<>> for null
getFileExtension(url) ==
    IF ~url.valid THEN <<>>
    ELSE LET s == url.pathname
             hits == { k \in DOMAIN s : ExtMatchAt(s, k) }
         IN  IF hits = {} THEN <<>>
             ELSE LET k == CHOOSE j \in hits : \A m \in hits : j <= m
                  IN  ToLower(SubSeq(s, k + 1, k + AlnumRun(s, k + 1)))

\* ------------------------------------------------------------- platform

\* RegExp.prototype.test with a literal pattern: substring search
Contains(s, pat) ==
    \E k \in 1..(Len(s) - Len(pat) + 1) : SubSeq(s, k, k + Len(pat) - 1) = pat

\* the same under the i flag
ContainsNoCase(s, pat) == Contains(ToLower(s), ToLower(pat))

IosTokens == { <<"i","P","a","d">>, <<"i","P","h","o","n","e">>, <<"i","P","o","d">> }
AndroidTokens == { <<"A","n","d","r","o","i","d">>, <<"w","e","b","O","S">>,
                   <<"B","l","a","c","k","B","e","r","r","y">>,
                   <<"I","E","M","o","b","i","l","e">>,
                   <<"O","p","e","r","a"," ","M","i","n","i">> }

\* getPlatform: /iPad|iPhone|iPod/ first, then the android family under /i
getPlatform(ua) ==
    IF \E t \in IosTokens : Contains(ua, t) THEN "ios"
    ELSE IF \E t \in AndroidTokens : ContainsNoCase(ua, t) THEN "android"
    ELSE "desktop"

\* ------------------------------------------------------ the environment

\* navigator.userAgent strings the model runs under: an iPhone, an Android
\* phone naming itself in lower case, a device naming both families, a
\* desktop whose string holds "ipad" in lower case only.
UserAgents ==
    { <<"M","o","z"," ","i","P","h","o","n","e">>,
      <<"M","o","z"," ","a","n","d","r","o","i","d">>,
      <<"A","n","d","r","o","i","d"," ","i","P","o","d">>,
      <<"X","1","1"," ","i","p","a","d">> }

\* window.location.href values: a condo page and a page of another shape
PageUrls ==
    { Url(<<"/","c","o","n","d","o","/","a","-","b","/","7","/">>),
      Url(<<"/","h","o","m","e">>) }

\* img.src of the k-th <img> of the page (k from 1)
ImageSrc(k) ==
    CASE k % 3 = 1 -> Url(<<"/","p",".","P","N","G">>)
      [] k % 3 = 2 -> Url(<<"/","a",".","b","/","q">>)
      [] OTHER     -> BadUrl

PagesOfImages == { [k \in 1..n |-> ImageSrc(k)] : n \in 0..MaxImages }

\* Pages whose images carry any of these srcs in any order, so that two
\* images of a page can have the same extension.
PagesOfAnyImages ==
    UNION { [1..n -> { ImageSrc(k) : k \in 1..3 }] : n \in 0..MaxImages }

\* MakeFilename with the index left out of the name.
MakeFilenameNoIndex(fileName, index, src) ==
    LET ext == getFileExtension(src)
        extension == IF ext = <<>> THEN Jpg ELSE ext
    IN  fileName \o <<".">> \o extension

\* `${fileName}_${index + 1}.${extension}` with extension || "jpg"
MakeFilename(fileName, index, src) ==
    LET ext == getFileExtension(src)
        extension == IF ext = <<>> THEN Jpg ELSE ext
    IN  fileName \o <<"_">> \o Decimal(index + 1) \o <<".">> \o extension

\* ---------------------------------------------------------------- state

VARIABLES
    pageImages,      \* document.querySelectorAll("img"): the srcs, in document order
    href,            \* window.location.href
    userAgent,       \* navigator.userAgent
    shareSupported,  \* what canShareFiles() evaluates to on this browser
    pc,              \* "idle", "running" (join pending), "joined", "returned" (init returned early)
    images,          \* this.images
    processedCount,  \* this.processedCount
    failedCount,     \* this.failedCount
    statusDiv,       \* this.statusDiv and the element it refers to
    task,            \* per index: where the image's pipeline stands
    loadSignal,      \* per index: the event tempImg has fired
    resolveCalls,    \* per index: calls of the task promise's resolve
    filename,        \* per index: the filename held by processImage's closure
    shareLog,        \* per index: the navigator.share calls and how each settled
    downloadLog,     \* per index: the downloadFile calls made for that image's blob
    anchors,         \* temporary <a> elements attached to document.body
    blobUrls,        \* object URLs created and not revoked
    timers,          \* pending setTimeout(removeStatusDisplay) durations
    terminalRenders, \* number of showSuccess/showError writes to the indicator
    other            \* the fields of a second ImageDownloader, when there is one

vars == <<pageImages, href, userAgent, shareSupported, pc, images,
          processedCount, failedCount, statusDiv, task, loadSignal,
          resolveCalls, filename, shareLog, downloadLog, anchors, blobUrls,
          timers, terminalRenders, other>>

env == <<pageImages, href, userAgent, shareSupported>>

\* Task indices of the run, 0-based as in the code.
Indices == 0..(Len(images) - 1)

NoDiv == [created |-> FALSE, attached |-> FALSE, background |-> "", text |-> <<>>]

Resolved(i) == task[i] \in {"done", "failed"}

\* The fields of an ImageDownloader that downloadAllImages has not yet
\* constructed.
IdleRun ==
    [pc |-> "idle", images |-> <<>>, processedCount |-> 0, failedCount |-> 0,
     statusDiv |-> NoDiv, task |-> <<>>, loadSignal |-> <<>>,
     resolveCalls |-> <<>>, filename |-> <<>>, shareLog |-> <<>>,
     downloadLog |-> <<>>, timers |-> {}, terminalRenders |-> 0]

\* The fields of the ImageDownloader whose callbacks the actions describe.
ThisRun ==
    [pc |-> pc, images |-> images, processedCount |-> processedCount,
     failedCount |-> failedCount, statusDiv |-> statusDiv, task |-> task,
     loadSignal |-> loadSignal, resolveCalls |-> resolveCalls,
     filename |-> filename, shareLog |-> shareLog,
     downloadLog |-> downloadLog, timers |-> timers,
     terminalRenders |-> terminalRenders]

\* --------------------------------------------------- status indicator

\* createStatusDisplay
createStatusDisplay ==
    [created |-> TRUE, attached |-> TRUE, background |-> "#333", text |-> <<>>]

\* The text updateStatus writes for the counters p, f and n images.
StatusText(p, f, n) ==
    IF f > 0
    THEN <<"Processing: ">> \o Decimal(p) \o <<"/">> \o Decimal(n)
             \o <<", Failed: ">> \o Decimal(f)
    ELSE <<"Processing: ">> \o Decimal(p) \o <<"/">> \o Decimal(n)

\* updateStatus, on the indicator div with the counters p and f
updateStatus(div, p, f) ==
    IF div.created THEN [div EXCEPT !.text = StatusText(p, f, Len(images))]
    ELSE div

\* showError(message, duration = 3000): the indicator and the timers after it
showError(div, message) ==
    IF div.created
    THEN [div    |-> [div EXCEPT !.background = "#f44336", !.text = message],
          timers |-> timers \cup {ErrorDuration},
          renders |-> 1]
    ELSE [div |-> div, timers |-> timers, renders |-> 0]

\* showSuccess(message, duration = 5000)
showSuccess(div, message) ==
    IF div.created
    THEN [div    |-> [div EXCEPT !.background = "#4CAF50", !.text = message],
          timers |-> timers \cup {SuccessDuration},
          renders |-> 1]
    ELSE [div |-> div, timers |-> timers, renders |-> 0]

\* removeStatusDisplay
removeStatusDisplay(div) ==
    IF div.created /\ div.attached THEN [div EXCEPT !.attached = FALSE] ELSE div

NoImagesMessage == <<"No images found on this page">>
CompleteMessage(successCount) ==
    <<"Download complete! <br> ">> \o Decimal(successCount) \o <<" images downloaded">>
FailedMessage(f, n) ==
    <<"Download failed! <br> ">> \o Decimal(f) \o <<"/">> \o Decimal(n)
        \o <<" images failed to download">>

\* ----------------------------------------------------------------- Init

Init ==
    /\ pageImages \in PagesOfImages
    /\ href \in PageUrls
    /\ userAgent \in UserAgents
    /\ shareSupported \in BOOLEAN
    /\ pc = "idle"
    /\ images = <<>>
    /\ processedCount = 0
    /\ failedCount = 0
    /\ statusDiv = NoDiv
    /\ task = <<>>
    /\ loadSignal = <<>>
    /\ resolveCalls = <<>>
    /\ filename = <<>>
    /\ shareLog = <<>>
    /\ downloadLog = <<>>
    /\ anchors = 0
    /\ blobUrls = 0
    /\ timers = {}
    /\ terminalRenders = 0
    /\ other = IdleRun


\* -------------------------------------------------------------- actions

\* Settle with updateStatus called before the counter is incremented.
SettleStale(i, state, p, f) ==
    /\ task' = [task EXCEPT ![i] = state]
    /\ processedCount' = p
    /\ failedCount' = f
    /\ statusDiv' = updateStatus(statusDiv, processedCount, failedCount)
    /\ resolveCalls' = [resolveCalls EXCEPT ![i] = @ + 1]

\* The completion of task i: the counters become p and f, the status is
\* re-rendered and the task promise's resolve is called, in one step.
Settle(i, state, p, f) ==
    /\ task' = [task EXCEPT ![i] = state]
    /\ processedCount' = p
    /\ failedCount' = f
    /\ statusDiv' = updateStatus(statusDiv, p, f)
    /\ resolveCalls' = [resolveCalls EXCEPT ![i] = @ + 1]

\* this.processedCount++; this.updateStatus(); resolve({ success: true })
Succeed(i) == Settle(i, "done", processedCount + 1, failedCount)

\* Fail with the increment of failedCount forgotten.
FailUncounted(i) == Settle(i, "failed", processedCount, failedCount)

\* this.failedCount++; this.updateStatus(); resolve({ success: false })
Fail(i) == Settle(i, "failed", processedCount, failedCount + 1)

\* Abandon with processedCount++ placed before the await instead of after it.
AbandonCounted(i) ==
    /\ task' = [task EXCEPT ![i] = "abandoned"]
    /\ processedCount' = processedCount + 1
    /\ statusDiv' = updateStatus(statusDiv, processedCount + 1, failedCount)
    /\ UNCHANGED <<failedCount, resolveCalls>>

\* handleImageDownload raised inside the async toBlob callback: the
\* callback's promise rejects, nothing is counted and resolve is not called.
Abandon(i) ==
    /\ task' = [task EXCEPT ![i] = "abandoned"]
    /\ UNCHANGED <<processedCount, failedCount, statusDiv, resolveCalls>>

\* downloadFile(blob, filename) for the blob of image i; click is what
\* link.click() does.  When it raises, removeChild and revokeObjectURL
\* are not reached.
downloadFile(i, click) ==
    /\ downloadLog' = [downloadLog EXCEPT
                         ![i] = Append(@, [filename |-> filename[i],
                                           raised   |-> click = "raise"])]
    /\ anchors' = IF click = "raise" THEN anchors + 1 ELSE anchors
    /\ blobUrls' = IF click = "raise" THEN blobUrls + 1 ELSE blobUrls

\* downloadFile and what the caller's continuation does after it
DirectSave(i) ==
    \E click \in {"ok", "raise"} :
        /\ downloadFile(i, click)
        /\ IF click = "ok" THEN Succeed(i) ELSE Abandon(i)

\* UsesShare with the switch testing for any mobile platform.
UsesShareAnyMobile == getPlatform(userAgent) # "desktop" /\ shareSupported

\* The android branch of handleImageDownload takes the share path.
UsesShare == getPlatform(userAgent) = "android" /\ shareSupported

\* handleImageDownload up to its first suspension
handleImageDownload(i) ==
    IF UsesShare
    THEN /\ shareLog' = [shareLog EXCEPT
                            ![i] = Append(@, [filename |-> filename[i],
                                              state    |-> "pending"])]
         /\ task' = [task EXCEPT ![i] = "saving"]
         /\ UNCHANGED <<processedCount, failedCount, statusDiv, resolveCalls,
                        downloadLog, anchors, blobUrls>>
    ELSE DirectSave(i) /\ UNCHANGED shareLog

\* AfterShare with a failed share counted as a failed image, no fallback.
AfterShareNoFallback(i, shared) ==
    IF shared
    THEN Succeed(i) /\ UNCHANGED <<downloadLog, anchors, blobUrls>>
    ELSE Fail(i) /\ UNCHANGED <<downloadLog, anchors, blobUrls>>

\* What follows the await of downloadWithShareAPI: shared is its result.
AfterShare(i, shared) ==
    IF shared
    THEN Succeed(i) /\ UNCHANGED <<downloadLog, anchors, blobUrls>>
    ELSE DirectSave(i)

\* TimerDue of a fail-fast loop: no task starts once one has failed.
TimerDueFailFast(i) ==
    /\ task[i] = "pending"
    /\ \A j \in Indices : j < i => task[j] # "pending"
    /\ failedCount = 0

\* StartDelay with the delays shrinking as the index grows.
StartDelayDescending(i) == (MaxImages - i) * StaggerMs

\* The delay processImages passes to setTimeout for task i.
StartDelay(i) == i * StaggerMs

\* The delay the function version passes to setTimeout for task i.
FunctionStartDelay(i) == i * FunctionStaggerMs

\* The timer of task i is the next to expire.  All timers are set in one
\* synchronous loop, so they expire in the order of their delays, and
\* timers of equal delay in the order they were set.
TimerDue(i) ==
    /\ task[i] = "pending"
    /\ \A j \in Indices :
          task[j] = "pending" =>
              \/ StartDelay(i) < StartDelay(j)
              \/ StartDelay(i) = StartDelay(j) /\ i <= j

\* JoinReady with Promise.race in place of Promise.all.
JoinReadyRace == \E i \in Indices : Resolved(i)

\* Promise.all(imagePromises) is fulfilled.
JoinReady == \A i \in Indices : Resolved(i)

\* TerminalVariant deciding on successCount > 0, as the function version's
\* background colour does.
TerminalVariantBySuccess == IF processedCount > 0 THEN "success" ELSE "error"

\* The terminal message processImages chooses: failedCount === 0 or > 0.
TerminalVariant == IF failedCount = 0 THEN "success" ELSE "error"

\* downloadAllImages(): new ImageDownloader(), its constructor, init() and
\* processImages() up to the await.
DownloadAllImages ==
    /\ pc = "idle"
    /\ images' = pageImages
    /\ processedCount' = 0
    /\ failedCount' = 0
    /\ LET n == Len(pageImages)
           ix == 0..(n - 1)
       IN  IF n = 0
           THEN LET r == showError(NoDiv, NoImagesMessage)
                IN  /\ statusDiv' = r.div
                    /\ timers' = r.timers
                    /\ terminalRenders' = terminalRenders + r.renders
                    /\ pc' = "returned"
                    /\ UNCHANGED <<task, loadSignal, resolveCalls, filename,
                                   shareLog, downloadLog>>
           ELSE /\ statusDiv' = [createStatusDisplay EXCEPT
                                   !.text = StatusText(0, 0, n)]
                /\ task' = [i \in ix |-> "pending"]
                /\ loadSignal' = [i \in ix |-> "none"]
                /\ resolveCalls' = [i \in ix |-> 0]
                /\ filename' = [i \in ix |-> <<>>]
                /\ shareLog' = [i \in ix |-> <<>>]
                /\ downloadLog' = [i \in ix |-> <<>>]
                /\ pc' = "running"
                /\ UNCHANGED <<timers, terminalRenders>>
    /\ UNCHANGED <<env, other, anchors, blobUrls>>

\* The timer callback of task i and processImage up to tempImg.src = url.
StartTask(i) ==
    /\ pc = "running"
    /\ TimerDue(i)
    /\ filename' = [filename EXCEPT
                      ![i] = MakeFilename(getFileNameFromUrl(href), i, images[i + 1])]
    /\ task' = [task EXCEPT ![i] = "loading"]
    /\ UNCHANGED <<env, other, pc, images, processedCount, failedCount, statusDiv,
                   loadSignal, resolveCalls, shareLog, downloadLog, anchors,
                   blobUrls, timers, terminalRenders>>

\* tempImg.onload: draw on the canvas and ask for the blob; an exception
\* in the try block counts the image as failed.
ImageLoaded(i) ==
    /\ task[i] = "loading"
    /\ loadSignal' = [loadSignal EXCEPT ![i] = "load"]
    /\ \E draw \in {"ok", "raise"} :
          IF draw = "raise"
          THEN Fail(i)
          ELSE /\ task' = [task EXCEPT ![i] = "encoding"]
               /\ UNCHANGED <<processedCount, failedCount, statusDiv, resolveCalls>>
    /\ UNCHANGED <<env, other, pc, images, filename, shareLog, downloadLog, anchors,
                   blobUrls, timers, terminalRenders>>

\* tempImg.onerror
ImageError(i) ==
    /\ task[i] = "loading"
    /\ loadSignal' = [loadSignal EXCEPT ![i] = "error"]
    /\ Fail(i)
    /\ UNCHANGED <<env, other, pc, images, filename, shareLog, downloadLog, anchors,
                   blobUrls, timers, terminalRenders>>

\* The toBlob callback, with handleImageDownload up to its first suspension.
BlobCallback(i) ==
    /\ task[i] = "encoding"
    /\ \E blob \in BOOLEAN :
          IF blob
          THEN handleImageDownload(i)
          ELSE Fail(i) /\ UNCHANGED <<shareLog, downloadLog, anchors, blobUrls>>
    /\ UNCHANGED <<env, other, pc, images, loadSignal, filename, timers, terminalRenders>>

\* navigator.share settles: downloadWithShareAPI returns true or, from its
\* catch, false; handleImageDownload and the toBlob callback continue.
ShareSettled(i) ==
    /\ task[i] = "saving"
    /\ \E shared \in BOOLEAN :
          /\ shareLog' = [shareLog EXCEPT
                            ![i][Len(shareLog[i])].state =
                                IF shared THEN "fulfilled" ELSE "rejected"]
          /\ AfterShare(i, shared)
    /\ UNCHANGED <<env, other, pc, images, loadSignal, filename, timers,
                   terminalRenders>>

\* processImages after await Promise.all: the completion message.
JoinComplete ==
    /\ pc = "running"
    /\ JoinReady
    /\ LET r == IF TerminalVariant = "success"
                THEN showSuccess(statusDiv, CompleteMessage(processedCount))
                ELSE showError(statusDiv, FailedMessage(failedCount, Len(images)))
       IN  /\ statusDiv' = r.div
           /\ timers' = r.timers
           /\ terminalRenders' = terminalRenders + r.renders
    /\ pc' = "joined"
    /\ UNCHANGED <<env, other, images, processedCount, failedCount, task, loadSignal,
                   resolveCalls, filename, shareLog, downloadLog, anchors, blobUrls>>

\* A removal timer set by showError or showSuccess fires.
RemovalTimerFires ==
    /\ \E d \in timers :
          /\ timers' = timers \ {d}
          /\ statusDiv' = removeStatusDisplay(statusDiv)
    /\ UNCHANGED <<env, other, pc, images, processedCount, failedCount, task,
                   loadSignal, resolveCalls, filename, shareLog, downloadLog,
                   anchors, blobUrls, terminalRenders>>

Next ==
    \/ DownloadAllImages
    \/ \E i \in Indices : StartTask(i)
    \/ \E i \in Indices : ImageLoaded(i)
    \/ \E i \in Indices : ImageError(i)
    \/ \E i \in Indices : BlobCallback(i)
    \/ \E i \in Indices : ShareSettled(i)
    \/ JoinComplete
    \/ RemovalTimerFires

Spec == Init /\ [][Next]_vars


\* The event loop runs every timer that has expired: a start timer set by
\* processImages that is due does fire.  An image load may never signal and
\* a share sheet may never be dismissed; those steps carry no fairness.
Fairness == WF_vars(\E i \in Indices : StartTask(i))

SpecFair == Spec /\ Fairness

\* ====================================================================
\* Properties
\* ====================================================================

NumResolutions(i) == resolveCalls[i]
AllResolvedOnce == \A i \in Indices : NumResolutions(i) = 1
ShowsSuccess ==
    /\ statusDiv.created
    /\ statusDiv.background = "#4CAF50"
    /\ statusDiv.text = CompleteMessage(processedCount)
ShowsFailure ==
    /\ statusDiv.created
    /\ statusDiv.background = "#f44336"
    /\ statusDiv.text = FailedMessage(failedCount, Len(images))

C3_TerminalVariant ==
    (pc = "joined" /\ Len(images) >= 1) =>
        /\ ShowsSuccess <=> failedCount = 0
        /\ ShowsFailure <=> failedCount > 0

\* C3 witness: a joined run in which one task failed and another succeeded
\* shows the failure variant.
C3_Witness ==
    /\ pc = "joined"
    /\ failedCount >= 1
    /\ processedCount >= 1
    /\ ShowsFailure

\* C5: processedCount + failedCount never exceeds the number of images fixed
\* at discovery, and equals it exactly when every task has resolved.
C5_CounterBound ==
    /\ processedCount + failedCount <= Len(images)
    /\ (processedCount + failedCount = Len(images))
          <=> (\A i \in Indices : NumResolutions(i) >= 1)

\* C5 witness: the counters of a run of at least two images reach the total
\* while the join is still pending, one task having failed, one succeeded.
C5_Witness ==
    /\ pc = "running"
    /\ Len(images) >= 2
    /\ processedCount >= 1
    /\ failedCount >= 1
    /\ processedCount + failedCount = Len(images)

\* C7: the terminal message is rendered only when all N tasks have resolved,
\* and a task resolves only after its load has signalled load or error (no
\* timeout or cancellation resolves it): while one load stays silent the
\* terminal message is not rendered.
C7_TerminalAfterAllResolved ==
    /\ (pc = "joined" \/ terminalRenders > 0 \/ timers # {}) =>
            \A i \in Indices : NumResolutions(i) >= 1
    /\ \A i \in Indices :
            (NumResolutions(i) >= 1 \/ task[i] \notin {"pending", "loading"})
                => loadSignal[i] # "none"

\* C7 witness: the terminal message of a run of at least two images is shown;
\* all of its loads have signalled.
C7_Witness ==
    /\ terminalRenders = 1
    /\ Len(images) >= 2
    /\ \A i \in Indices : loadSignal[i] # "none"


\* C2: every started task resolves whatever its steps do: a task whose load
\* has signalled and which waits for no callback (neither the encoder's nor
\* the share's) has resolved, and unless it succeeded it is counted in
\* failedCount.
C2_EveryTaskResolves ==
    /\ \A i \in Indices :
          (loadSignal[i] # "none" /\ task[i] \notin {"encoding", "saving"})
              => /\ NumResolutions(i) = 1
                 /\ task[i] \in {"done", "failed"}
    /\ failedCount = Cardinality({ i \in Indices : task[i] \notin
                          {"pending", "loading", "encoding", "saving", "done"} })

\* C4: with zero images discovered no transfer is attempted and the indicator
\* shows the error-styled "No images found on this page" message, with its
\* removal timer of 3 seconds set or already fired.
C4_NoImagesMessage ==
    pc = "returned" =>
        /\ task = <<>>
        /\ anchors = 0
        /\ statusDiv.created
        /\ statusDiv.background = "#f44336"
        /\ statusDiv.text = NoImagesMessage
        /\ (statusDiv.attached <=> timers = {ErrorDuration})

\* C6: exactly one terminal render per run for every N >= 0: never more than
\* one, and one once the run has completed.
C6_ExactlyOneTerminalRender ==
    /\ terminalRenders <= 1
    /\ pc \in {"joined", "returned"} => terminalRenders = 1

AllStarted == \A i \in Indices : task[i] # "pending"

\* Every step a task waits for can be taken, whatever has happened to the
\* other tasks: the start of the next task in index order, the load signal,
\* the encoder's callback, the settling of the share.
NothingBlocksATask ==
    \A i \in Indices :
        /\ (pc = "running" /\ task[i] = "pending"
               /\ \A j \in Indices : j < i => task[j] # "pending")
              => ENABLED StartTask(i)
        /\ task[i] = "loading" => (ENABLED ImageLoaded(i) /\ ENABLED ImageError(i))
        /\ task[i] = "encoding" => ENABLED BlobCallback(i)
        /\ task[i] = "saving" => ENABLED ShareSettled(i)

\* C8: no fail-fast: the failure of a task never disables the start of
\* another task nor a step by which another task resolves, and in every run
\* with N >= 1 all N tasks are started, whatever the outcomes of the tasks
\* started before them.
C8_NoFailFast ==
    /\ []NothingBlocksATask
    /\ (pc = "running") ~> AllStarted

\* C8 witness: the first task has failed and the task after it was started
\* and has resolved with success.
C8_Witness ==
    /\ Len(images) >= 2
    /\ task[0] = "failed"
    /\ task[1] = "done"

ShareRejected(i) ==
    \E k \in DOMAIN shareLog[i] : shareLog[i][k].state = "rejected"

ExpectedPlatform ==
    CASE userAgent = <<"M","o","z"," ","i","P","h","o","n","e">>         -> "ios"
      [] userAgent = <<"M","o","z"," ","a","n","d","r","o","i","d">>     -> "android"
      [] userAgent = <<"A","n","d","r","o","i","d"," ","i","P","o","d">> -> "ios"
      [] OTHER                                                           -> "desktop"

HasBlob(i) == task[i] \in {"saving", "done", "abandoned"}

\* C10: save routing: on desktop and ios the share surface is never invoked
\* and exactly one direct save is made per encoded blob; on android the share
\* is attempted (once, first) iff the share surface supports files, and a
\* direct save is made iff share is unsupported or the share attempt failed.
\* Without a blob nothing is shared or saved.
C10_SaveRouting ==
    \A i \in Indices :
        /\ ~HasBlob(i) => (shareLog[i] = <<>> /\ downloadLog[i] = <<>>)
        /\ (HasBlob(i) /\ ExpectedPlatform # "android") =>
              (shareLog[i] = <<>> /\ Len(downloadLog[i]) = 1)
        /\ (HasBlob(i) /\ ExpectedPlatform = "android") =>
              /\ Len(shareLog[i]) = (IF shareSupported THEN 1 ELSE 0)
              /\ Len(downloadLog[i]) <= 1
              /\ Len(downloadLog[i]) = 1 <=> (~shareSupported \/ ShareRejected(i))

\* C10 witness: on android an image was shared successfully, was not saved
\* directly and is counted as processed.
C10_Witness ==
    /\ ExpectedPlatform = "android"
    /\ \E i \in Indices :
          /\ task[i] = "done"
          /\ Len(shareLog[i]) = 1
          /\ shareLog[i][1].state = "fulfilled"
          /\ downloadLog[i] = <<>>

\* C11: direct save is a scoped-resource operation: after every downloadFile
\* call, whether link.click() returned or raised, the temporary anchor is
\* detached and the blob URL revoked, so none is outstanding between steps.
C11_ResourcesReleased ==
    /\ anchors = 0
    /\ blobUrls = 0

BlobProduced(i) == Len(shareLog[i]) + Len(downloadLog[i]) > 0

\* C17: a task is counted in failedCount iff it failed at load, at drawing or
\* at encoding (before any blob existed), and once a blob has been produced
\* the task ends in done, counted in processedCount and resolved, whatever
\* the platform save path did: it is then either still waiting for the share
\* to settle or done.
C17_OutcomeClassification ==
    /\ failedCount = Cardinality({ i \in Indices : task[i] = "failed" })
    /\ processedCount = Cardinality({ i \in Indices : task[i] = "done" })
    /\ \A i \in Indices :
          /\ task[i] = "failed" => (~BlobProduced(i) /\ loadSignal[i] # "none")
          /\ loadSignal[i] = "error" => task[i] = "failed"
          /\ BlobProduced(i) => task[i] \in {"saving", "done"}
          /\ task[i] = "done" => (BlobProduced(i) /\ NumResolutions(i) = 1)

IsTerminalText(text) ==
    \/ text = CompleteMessage(processedCount)
    \/ text = FailedMessage(failedCount, Len(images))

\* C18: the indicator of a run with N >= 1 goes absent, active, terminal,
\* absent: while the join is pending it is attached and shows the progress
\* text; after the join it shows the terminal message, which no progress
\* render overwrites, it stays attached exactly as long as its removal timer
\* of 5 seconds is pending, and after that it is detached for good.
C18_IndicatorLifecycle ==
    /\ pc = "idle" => ~statusDiv.created
    /\ pc = "running" =>
          /\ statusDiv.attached
          /\ statusDiv.text = StatusText(processedCount, failedCount, Len(images))
          /\ timers = {}
    /\ pc = "joined" =>
          /\ IsTerminalText(statusDiv.text)
          /\ statusDiv.attached <=> timers = {SuccessDuration}
          /\ ~statusDiv.attached <=> timers = {}

\* The text of an active indicator for the counters p, f and n images.
ProgressRendering(p, f, n) ==
    <<"Processing: ">> \o Decimal(p) \o <<"/">> \o Decimal(n)
        \o (IF f > 0 THEN <<", Failed: ">> \o Decimal(f) ELSE <<>>)

\* C19: whenever the indicator is active (created, join pending) its text is
\* the rendering of the current counters: processedCount/total, followed by
\* the failure count iff failedCount > 0.
C19_NoStaleStatus ==
    (statusDiv.created /\ pc = "running") =>
        /\ statusDiv.text = ProgressRendering(processedCount, failedCount, Len(images))
        /\ (\E k \in DOMAIN statusDiv.text : statusDiv.text[k] = ", Failed: ")
              <=> failedCount > 0

\* C19 witness: an active indicator after one task succeeded and one failed.
C19_Witness ==
    /\ statusDiv.created
    /\ pc = "running"
    /\ processedCount >= 1
    /\ failedCount >= 1
    /\ Len(statusDiv.text) = 6

\* C13: tasks start in strict index order: task i is scheduled i x 200 ms
\* after invocation (i x 100 ms in the function version), so when a task
\* starts every task of smaller index has started and none of larger index
\* has, and the scheduled starts of consecutive tasks are one interval apart.
C13_StartOrder ==
    [][ \A i \in Indices :
          (task[i] = "pending" /\ task'[i] # "pending") =>
              /\ StartDelay(i) = i * 200
              /\ FunctionStartDelay(i) = i * 100
              /\ \A j \in Indices :
                    /\ j < i => (task[j] # "pending" /\ StartDelay(i) - StartDelay(j) = (i - j) * 200)
                    /\ j > i => task[j] = "pending"
                    /\ j = i + 1 => (StartDelay(j) - StartDelay(i) = 200
                                       /\ FunctionStartDelay(j) - FunctionStartDelay(i) = 100)
      ]_vars

\* C13 witness: completion out of start order: the second task has resolved
\* while the first, started before it, is still in its pipeline.
C13_Witness ==
    /\ Len(images) >= 2
    /\ Resolved(1)
    /\ task[0] \in {"loading", "encoding", "saving"}

\* ------------------------------------------- the page URL changing

\* The page's scripts or the user change window.location.href (a pushState
\* navigation) between two steps of the run; getFileNameFromUrl reads the
\* URL anew at each call.
Navigate ==
    /\ href' \in PageUrls \ {href}
    /\ UNCHANGED <<pageImages, userAgent, shareSupported, other, pc, images,
                   processedCount, failedCount, statusDiv, task, loadSignal,
                   resolveCalls, filename, shareLog, downloadLog, anchors,
                   blobUrls, timers, terminalRenders>>

InitNav ==
    /\ pageImages \in PagesOfAnyImages
    /\ href \in PageUrls
    /\ userAgent \in UserAgents
    /\ shareSupported \in BOOLEAN
    /\ pc = "idle"
    /\ images = <<>>
    /\ processedCount = 0
    /\ failedCount = 0
    /\ statusDiv = NoDiv
    /\ task = <<>>
    /\ loadSignal = <<>>
    /\ resolveCalls = <<>>
    /\ filename = <<>>
    /\ shareLog = <<>>
    /\ downloadLog = <<>>
    /\ anchors = 0
    /\ blobUrls = 0
    /\ timers = {}
    /\ terminalRenders = 0
    /\ other = IdleRun

NextNav ==
    \/ Next
    \/ Navigate

\* One run on any page, with the page URL free to change during the run.
SpecNav == InitNav /\ [][NextNav]_vars

Started(i) == task[i] # "pending"

\* C14: the filenames produced within one run are pairwise distinct, for
\* every choice of per-image extensions and whatever the page URL is at
\* each task's start.
C14_DistinctFilenames ==
    \A i, j \in Indices :
        (i # j /\ Started(i) /\ Started(j)) => filename[i] # filename[j]

\* C14 witness: two started tasks whose images have the same extension and
\* whose filenames carry the same prefix.
C14_Witness ==
    /\ Len(images) >= 2
    /\ Started(0)
    /\ Started(1)
    /\ getFileExtension(images[1]) = getFileExtension(images[2])
    /\ \E u \in PageUrls :
          \A i \in {0, 1} :
              filename[i] = MakeFilename(getFileNameFromUrl(u), i, images[i + 1])

\* C15: the filename prefix is computed once per run: all filenames of a
\* run carry one and the same prefix, even if the page URL changes between
\* the starts of the tasks.
C15_SharedPrefix ==
    \E u \in PageUrls :
        \A i \in Indices :
            Started(i) =>
                filename[i] = MakeFilename(getFileNameFromUrl(u), i, images[i + 1])

\* ------------------------------------------- naming on any page path

\* What stands between the slashes of the page paths: an empty segment (two
\* slashes in a row, or a trailing slash), the token "condo", a name with a
\* hyphen and a room number.
NamingSegments == { <<>>, Condo, <<"a","-","b">>, <<"7">> }

\* "/" + segments.join("/")
RECURSIVE PathOf(_)
PathOf(segments) ==
    IF segments = <<>> THEN <<"/">>
    ELSE IF Len(segments) = 1 THEN <<"/">> \o segments[1]
    ELSE PathOf(SubSeq(segments, 1, Len(segments) - 1))
             \o <<"/">> \o segments[Len(segments)]

\* window.location.href values of every path of up to MaxSegments segments,
\* and a URL that new URL() rejects.
NamingUrls ==
    { Url(PathOf(segments)) :
        segments \in UNION { [1..n -> NamingSegments] : n \in 0..MaxSegments } }
    \cup {BadUrl}

InitNaming ==
    /\ pageImages = <<ImageSrc(1)>>
    /\ href \in NamingUrls
    /\ userAgent \in UserAgents
    /\ shareSupported \in BOOLEAN
    /\ pc = "idle"
    /\ images = <<>>
    /\ processedCount = 0
    /\ failedCount = 0
    /\ statusDiv = NoDiv
    /\ task = <<>>
    /\ loadSignal = <<>>
    /\ resolveCalls = <<>>
    /\ filename = <<>>
    /\ shareLog = <<>>
    /\ downloadLog = <<>>
    /\ anchors = 0
    /\ blobUrls = 0
    /\ timers = {}
    /\ terminalRenders = 0
    /\ other = IdleRun

\* One run on a page of one image, at any page path.
SpecNaming == InitNaming /\ [][Next]_vars

\* The non-empty segments of a path, in order.
RECURSIVE NonEmptySegments(_)
NonEmptySegments(path) ==
    IF path = <<>> THEN <<>>
    ELSE IF Head(path) = "/" THEN NonEmptySegments(Tail(path))
    ELSE LET stops == { k \in DOMAIN path : path[k] = "/" }
             end == IF stops = {} THEN Len(path) + 1
                    ELSE CHOOSE k \in stops : \A m \in stops : k <= m
         IN  <<SubSeq(path, 1, end - 1)>>
                 \o NonEmptySegments(SubSeq(path, end, Len(path)))

\* The prefix the reference gives: condo_{name without hyphens}_{room} for
\* a path of at least 3 non-empty segments whose first is "condo", where
\* room is the last segment, or the one before it when the last starts with
\* "#"; "images" for every other path and for an unparsable URL.
ReferencePrefix(url) ==
    IF ~url.valid THEN Images
    ELSE LET segs == NonEmptySegments(url.pathname)
             n == Len(segs)
         IN  IF n >= 3 /\ segs[1] = Condo
             THEN Condo \o <<"_">>
                      \o SelectSeq(segs[2], LAMBDA c : c # "-") \o <<"_">>
                      \o (IF segs[n][1] = "#" THEN segs[n - 1] ELSE segs[n])
             ELSE Images

\* C16: getFileNameFromUrl agrees with the reference on every page path:
\* the prefix in the filename of every started task is the reference's
\* prefix for the page URL.
C16_PrefixMatchesReference ==
    \A i \in Indices :
        Started(i) =>
            filename[i] = MakeFilename(ReferencePrefix(href), i, images[i + 1])

\* ------------------------------------------------ two overlapping runs

\* SwitchRun with the counters kept in variables that both runs share.
SwitchRunSharedCounters ==
    /\ other' = [ThisRun EXCEPT !.processedCount = other.processedCount,
                                !.failedCount = other.failedCount]
    /\ pc' = other.pc
    /\ images' = other.images
    /\ statusDiv' = other.statusDiv
    /\ task' = other.task
    /\ loadSignal' = other.loadSignal
    /\ resolveCalls' = other.resolveCalls
    /\ filename' = other.filename
    /\ shareLog' = other.shareLog
    /\ downloadLog' = other.downloadLog
    /\ timers' = other.timers
    /\ terminalRenders' = other.terminalRenders
    /\ UNCHANGED <<env, processedCount, failedCount, anchors, blobUrls>>

\* downloadAllImages() constructs a new ImageDownloader at every call, with
\* its own fields, and nothing keeps it from being called while an earlier
\* instance is at work.  The next callback to run belongs to the other of
\* the two instances: its fields are the ones the actions act on from here,
\* while the document, the page URL and the browser are the same for both.
SwitchRun ==
    /\ other' = ThisRun
    /\ pc' = other.pc
    /\ images' = other.images
    /\ processedCount' = other.processedCount
    /\ failedCount' = other.failedCount
    /\ statusDiv' = other.statusDiv
    /\ task' = other.task
    /\ loadSignal' = other.loadSignal
    /\ resolveCalls' = other.resolveCalls
    /\ filename' = other.filename
    /\ shareLog' = other.shareLog
    /\ downloadLog' = other.downloadLog
    /\ timers' = other.timers
    /\ terminalRenders' = other.terminalRenders
    /\ UNCHANGED <<env, anchors, blobUrls>>

NextTwoRuns ==
    \/ Next
    \/ SwitchRun

\* Two invocations of downloadAllImages, the second at any moment.
SpecTwoRuns == Init /\ [][NextTwoRuns]_vars

\* C12: at most one status indicator is attached to the document at any
\* time, also when downloadAllImages is invoked again while an earlier run
\* is processing or shows its terminal message.
C12_SingleIndicator == ~(statusDiv.attached /\ other.statusDiv.attached)

\* What holds of one run r, looked at on its own fields only: its counters
\* count its own tasks, its indicator shows its own counters while the join
\* is pending, and at the join every one of its images has been counted and
\* its one terminal message reports its own counters.
RunIsolated(r) ==
    LET ix == 0..(Len(r.images) - 1)
        tasksIn(state) == Cardinality({ i \in DOMAIN r.task : r.task[i] = state })
    IN  /\ r.pc \in {"running", "joined"} => DOMAIN r.task = ix
        /\ r.processedCount = tasksIn("done")
        /\ r.failedCount = tasksIn("failed")
        /\ r.pc = "running" =>
              /\ r.statusDiv.attached
              /\ r.statusDiv.text =
                    ProgressRendering(r.processedCount, r.failedCount, Len(r.images))
              /\ r.timers = {}
              /\ r.terminalRenders = 0
        /\ r.pc = "joined" =>
              /\ r.processedCount + r.failedCount = Len(r.images)
              /\ r.terminalRenders = 1
              /\ r.statusDiv.text =
                    IF r.failedCount = 0
                    THEN CompleteMessage(r.processedCount)
                    ELSE FailedMessage(r.failedCount, Len(r.images))
              /\ r.statusDiv.attached <=> r.timers # {}

====
